---- MODULE Spec2Model ----
(***************************************************************************)
(* The asynchronous split-job subsystem of app/main.py: the in-memory job  *)
(* registry JOBS guarded by JLOCK, the request handlers split_async and    *)
(* job_status, and the background runner _run_split_job with the           *)
(* transcoder call split_video.                                            *)
(*                                                                         *)
(* Every handler and every runner is a thread (FastAPI runs sync           *)
(* endpoints and sync background tasks in a thread pool), so their steps   *)
(* interleave; a step is the code between two lock operations.             *)
(***************************************************************************)
EXTENDS Integers, Sequences, FiniteSets, TLC

VARIABLES
    JOBS,       \* the registry dict: video_id -> job record (main.py:36)
    JLOCK,      \* the holder of the registry lock, or Free (main.py:37)
    handler,    \* the request handler inside its "with JLOCK" block, or Idle
    tasks,      \* the background tasks added by split_async, in order
    segdirs,    \* number of .mp4 files in each <video, mode> output directory
    now,        \* the value datetime.utcnow() returned last
    response,   \* the response a handler sent last
    split       \* a call of split_video taken on its own: its arguments and seg_time

vars == <<JOBS, JLOCK, handler, tasks, segdirs, now, response, split>>

----------------------------------------------------------------------------
(* Bounds of the model *)

\* number of split_async submissions accepted in one behaviour
MaxSubmit == 2
\* largest value of the clock
MaxClock == 1
\* largest source duration, in milliseconds, and largest parts of a
\* split_video call taken on its own
MaxSegDuration == 400
MaxSegParts == 5

----------------------------------------------------------------------------
(* Storage and users: the collaborators the handlers consult *)

\* USERS (main.py:30-33): user name -> role
USERS == [admin |-> "admin", user |-> "user"]

\* Bearer credentials a caller may present: a token issued for a user of
\* USERS, or one that decode_bearer rejects.
BadToken == "badtoken"

\* meta.json of the uploaded videos: owner and probed duration in
\* milliseconds.  "v4" is an identifier with no video directory.
META == [v1 |-> [owner |-> "user",  duration |-> 40000],
         v2 |-> [owner |-> "admin", duration |-> 300],
         v3 |-> [owner |-> "admin", duration |-> 40000]]
VideoIds == {"v1", "v2", "v3", "v4"}
Stored == DOMAIN META

\* videos whose input.mp4 exists: upload_video writes it before meta.json;
\* the one of "v3" has been removed from the data directory since
HasInput == Stored \ {"v3"}

\* The requests handlers are given, as <<video_id, caller>>: one for each
\* way through the checks of current_user and _authorize_video_access.
Requests == {<<"v1", "user">>,     \* the owner, not an admin
             <<"v2", "admin">>,    \* an admin
             <<"v2", "user">>,     \* neither owner nor admin: 403
             <<"v4", "user">>,     \* no such video: 404
             <<"v1", BadToken>>}   \* no valid credential: 401

\* the same, with a request for the video whose source file is gone
AnyRequests == Requests \cup {<<"v3", "admin">>}

PartsChoices == {2, 4}
ModeChoices == {"fast"}

\* mode is a query parameter that split_async takes as it comes; this one
\* holds path separators
TraversalMode == "/../../v2/segments_fast"
AnyModes == ModeChoices \cup {TraversalMode}

\* the path components of f"segments_{mode}"
ModeComponents(mode) ==
    IF mode = TraversalMode THEN <<"segments_", "..", "..", "v2", "segments_fast">>
    ELSE <<"segments_fast">>

\* the directory a path below DATA_DIR names: ".." leaves the directory
\* reached so far
RECURSIVE Normalize(_, _)
Normalize(path, reached) ==
    IF path = <<>> THEN reached
    ELSE IF Head(path) = ".."
         THEN Normalize(Tail(path), SubSeq(reached, 1, Len(reached) - 1))
         ELSE Normalize(Tail(path), Append(reached, Head(path)))

\* out_dir = os.path.join(DATA_DIR, video_id, f"segments_{mode}"), as the
\* file system resolves it
OutDir(video_id, mode) == Normalize(<<video_id>> \o ModeComponents(mode), <<>>)

\* read_meta: the meta of a video directory, absent when there is none
HasMeta(video_id) == video_id \in Stored

\* current_user / decode_bearer: 401 unless the token decodes
TokenValid(caller) == caller \in DOMAIN USERS

AuthCode_NoOwnerCheck(video_id, caller) ==
    IF ~TokenValid(caller) THEN 401
    ELSE IF ~HasMeta(video_id) THEN 404
    ELSE 200
\* _authorize_video_access preceded by current_user: the HTTP status the
\* checks end with, 200 when they all pass
AuthCode(video_id, caller) ==
    IF ~TokenValid(caller) THEN 401
    ELSE IF ~HasMeta(video_id) THEN 404
    ELSE IF USERS[caller] # "admin" /\ META[video_id].owner # caller THEN 403
    ELSE 200

\* split_async's checks: authorization, then the source file must exist
SplitAsyncCode_NoInputCheck(video_id, caller) == AuthCode(video_id, caller)
SplitAsyncCode(video_id, caller) ==
    IF AuthCode(video_id, caller) # 200 THEN AuthCode(video_id, caller)
    ELSE IF video_id \notin HasInput THEN 404
    ELSE 200

ErrorDetail(code) ==
    IF code = 401 THEN "Missing or invalid Authorization header"
    ELSE IF code = 403 THEN "Forbidden"
    ELSE "Video not found"

----------------------------------------------------------------------------
(* The transcoder invoker split_video *)

Max(a, b) == IF a >= b THEN a ELSE b

\* seg_time = max(duration / max(parts, 1), 0.1), in milliseconds
MinSegTime == 100
SegTime_NoFloor(duration, parts) == duration \div Max(parts, 1)
SegTime(duration, parts) == Max(duration \div Max(parts, 1), MinSegTime)

\* number of segment files ffmpeg's segment muxer writes for a source of
\* the given duration cut every seg_time: the ceiling of duration/seg_time
Produced(duration, parts) ==
    (duration + SegTime(duration, parts) - 1) \div SegTime(duration, parts)

\* the exceptions split_video can raise, by the place that raises them
NoExc == "none"
Exceptions == {"HTTPException_500_ffmpeg_not_found",  \* _check_ffmpeg
               "CalledProcessError_ffprobe",          \* check_output in ffprobe_duration
               "HTTPException_400_duration",          \* float(out) failed
               "HTTPException_500_ffmpeg_failed"}     \* check_call failed

StrOf_Empty(e) == ""
\* str(e) as stored in the error record.  The exceptions are built with
\* positional arguments (HTTPException(500, "...")), so str(e) shows the
\* status and the detail.
StrOf(e) ==
    CASE e = "HTTPException_500_ffmpeg_not_found" -> "500: ffmpeg/ffprobe not found on PATH"
      [] e = "CalledProcessError_ffprobe" -> "Command ffprobe returned non-zero exit status 1."
      [] e = "HTTPException_400_duration" -> "400: Could not determine video duration"
      [] e = "HTTPException_500_ffmpeg_failed" ->
             "500: ffmpeg failed: Command ffmpeg returned non-zero exit status 1."

Catches_OnlyHTTPException(e) == e # "CalledProcessError_ffprobe"
\* "except Exception as e" of _run_split_job: which exceptions it catches
Catches(e) == e \in Exceptions

----------------------------------------------------------------------------
(* Job records, written whole *)

QueuedRecord_Done(mode, t) == [status |-> "done", mode |-> mode, queued_at |-> t]
QueuedRecord(mode, t) == [status |-> "queued", mode |-> mode, queued_at |-> t]

ProcessingRecord(mode, t) == [status |-> "processing", mode |-> mode, started_at |-> t]

DoneRecord_Requeued(mode, parts, t) ==
    [status |-> "queued", mode |-> mode, parts |-> parts, finished_at |-> t]
DoneRecord(mode, parts, t) ==
    [status |-> "done", mode |-> mode, parts |-> parts, finished_at |-> t]

ErrorRecord_AsDone(e, t) == [status |-> "done", error |-> StrOf(e), finished_at |-> t]
ErrorRecord(e, t) == [status |-> "error", error |-> StrOf(e), finished_at |-> t]

UnknownResult == [status |-> "unknown"]

\* JOBS[video_id] = record
SetJob_Rebind(jobs, video_id, record) == video_id :> record
SetJob_KeepExisting(jobs, video_id, record) == jobs @@ (video_id :> record)
SetJob(jobs, video_id, record) == (video_id :> record) @@ jobs

\* job = JOBS.get(video_id); if not job: return {"status": "unknown"}; return job
JobStatusResult_Raise(jobs, video_id) ==
    IF video_id \in DOMAIN jobs THEN [code |-> 200, body |-> jobs[video_id]]
    ELSE [code |-> 404, body |-> [detail |-> "Job not found"]]
JobStatusResult(jobs, video_id) ==
    IF video_id \in DOMAIN jobs THEN [code |-> 200, body |-> jobs[video_id]]
    ELSE [code |-> 200, body |-> UnknownResult]

----------------------------------------------------------------------------
(* The lock *)

Free == <<"free", 0>>
HandlerThread_Unlocked == <<"free", 0>>
HandlerThread == <<"handler", 0>>
JobThread(k) == <<"job", k>>

\* leaving a "with JLOCK:" block releases the lock
WithExit_KeepHeld(holder) == holder
WithExit(holder) == Free

----------------------------------------------------------------------------
(* Threads *)

\* What a handler does before its "with JLOCK" block (lines 338-341 and
\* 350-351) reads only the token and the stored video, so a handler is
\* modelled from the moment it takes the lock: the handler variable is the
\* request of the handler that is inside its "with JLOCK" block.
Idle == [op |-> "none", video_id |-> "none", caller |-> "none", parts |-> 0, mode |-> "none"]

NoResponse == [op |-> "none", video_id |-> "none", caller |-> "none", code |-> 0,
               body |-> [status |-> "none"]]

\* datetime.utcnow(): a value the clock may show now, never below the last
UtcNow == {t \in now..(now + 1) : t <= MaxClock}

Tasks == DOMAIN tasks

\* number of split_async requests accepted for a video so far
Accepted(video_id) == Cardinality({k \in Tasks : tasks[k].video_id = video_id})

\* no split_video call is looked at on its own
NoSplit == [pc |-> "none", duration |-> 0, parts |-> 0, seg_time |-> 0]

Init ==
    /\ JOBS = <<>>
    /\ JLOCK = Free
    /\ handler = Idle
    /\ tasks = <<>>
    /\ segdirs = [d \in {OutDir(v, m) : v \in Stored, m \in AnyModes} |-> 0]
    /\ now = 0
    /\ response = NoResponse
    /\ split = NoSplit

----------------------------------------------------------------------------
(* split_async: POST /videos/{video_id}/split_async *)

\* lines 338-341 raise: the request is answered with the error
SplitAsyncReject(video_id, caller) ==
    /\ SplitAsyncCode(video_id, caller) # 200
    /\ response' = [op |-> "split_async", video_id |-> video_id, caller |-> caller,
                    code |-> SplitAsyncCode(video_id, caller),
                    body |-> [detail |-> ErrorDetail(SplitAsyncCode(video_id, caller))]]
    /\ UNCHANGED <<JOBS, JLOCK, handler, tasks, segdirs, now, split>>

\* lines 338-343: the checks pass and the handler takes the lock
SplitAsyncAcquire(video_id, caller, parts, mode) ==
    /\ Len(tasks) < MaxSubmit
    /\ SplitAsyncCode(video_id, caller) = 200
    /\ JLOCK = Free
    /\ JLOCK' = HandlerThread
    /\ handler' = [op |-> "split_async", video_id |-> video_id, caller |-> caller,
                   parts |-> parts, mode |-> mode]
    /\ UNCHANGED <<JOBS, tasks, segdirs, now, response, split>>

\* lines 344-346: write the queued record, release the lock, add the
\* background task and answer
SplitAsyncWrite ==
    /\ handler.op = "split_async"
    /\ JLOCK = HandlerThread
    /\ \E t \in UtcNow :
          /\ now' = t
          /\ JOBS' = SetJob(JOBS, handler.video_id, QueuedRecord(handler.mode, t))
    /\ JLOCK' = WithExit(JLOCK)
    /\ tasks' = Append(tasks, [video_id |-> handler.video_id, parts |-> handler.parts,
                               mode |-> handler.mode, pc |-> "L316",
                               files |-> 0, exc |-> NoExc])
    /\ response' = [op |-> "split_async", video_id |-> handler.video_id,
                    caller |-> handler.caller, code |-> 200,
                    body |-> [job |-> handler.video_id, status |-> "queued"]]
    /\ handler' = Idle
    /\ UNCHANGED <<segdirs, split>>

----------------------------------------------------------------------------
(* job_status: GET /jobs/{video_id} *)

\* lines 350-351 raise
JobStatusReject(video_id, caller) ==
    /\ AuthCode(video_id, caller) # 200
    /\ response' = [op |-> "job_status", video_id |-> video_id, caller |-> caller,
                    code |-> AuthCode(video_id, caller),
                    body |-> [detail |-> ErrorDetail(AuthCode(video_id, caller))]]
    /\ UNCHANGED <<JOBS, JLOCK, handler, tasks, segdirs, now, split>>

\* lines 350-352: the checks pass and the handler takes the lock
JobStatusAcquire(video_id, caller) ==
    /\ AuthCode(video_id, caller) = 200
    /\ JLOCK = Free
    /\ JLOCK' = HandlerThread
    /\ handler' = [op |-> "job_status", video_id |-> video_id, caller |-> caller,
                   parts |-> 0, mode |-> "none"]
    /\ UNCHANGED <<JOBS, tasks, segdirs, now, response, split>>

IsTerminal(record) == record.status \in {"done", "error"}

\* lines 353-356: read the record, release the lock and answer
JobStatusRead ==
    /\ handler.op = "job_status"
    /\ JLOCK = HandlerThread
    /\ JLOCK' = WithExit(JLOCK)
    /\ LET res == JobStatusResult(JOBS, handler.video_id) IN
        response' = [op |-> "job_status", video_id |-> handler.video_id,
                     caller |-> handler.caller, code |-> res.code, body |-> res.body]
    /\ handler' = Idle
    /\ UNCHANGED <<JOBS, tasks, segdirs, now, split>>

----------------------------------------------------------------------------
(* _run_split_job: the background task *)

Returned_Retry(task) == [task EXCEPT !.pc = "L316"]
\* the task once _run_split_job has returned: its locals are gone
Returned(task) == [video_id |-> task.video_id, parts |-> 0, mode |-> "none",
                   pc |-> "finished", files |-> 0,
                   exc |-> IF task.exc = NoExc THEN NoExc ELSE "handled"]

\* line 316: JLOCK.acquire()
RunnerAcquireProcessing(k) ==
    /\ tasks[k].pc = "L316"
    /\ JLOCK = Free
    /\ JLOCK' = JobThread(k)
    /\ tasks' = [tasks EXCEPT ![k].pc = "L317"]
    /\ UNCHANGED <<JOBS, handler, segdirs, now, response, split>>

\* line 317: write the processing record and release the lock
RunnerWriteProcessing(k) ==
    /\ tasks[k].pc = "L317"
    /\ JLOCK = JobThread(k)
    /\ \E t \in UtcNow :
          /\ now' = t
          /\ JOBS' = SetJob(JOBS, tasks[k].video_id, ProcessingRecord(tasks[k].mode, t))
    /\ JLOCK' = WithExit(JLOCK)
    /\ tasks' = [tasks EXCEPT ![k].pc = "L318"]
    /\ UNCHANGED <<handler, segdirs, response, split>>

\* line 318, split_video returns: ffmpeg has written part_00 .. part_(n-1)
\* over what out_dir held, and files lists every .mp4 of out_dir
RunnerSplitReturns(k) ==
    /\ tasks[k].pc = "L318"
    /\ LET dir == OutDir(tasks[k].video_id, tasks[k].mode)
           n == Produced(META[tasks[k].video_id].duration, tasks[k].parts)
       IN /\ segdirs' = [segdirs EXCEPT ![dir] = Max(segdirs[dir], n)]
          /\ tasks' = [tasks EXCEPT ![k].pc = "L319", ![k].files = segdirs'[dir]]
    /\ UNCHANGED <<JOBS, JLOCK, handler, now, response, split>>

\* line 318, split_video raises e: caught at line 326, or propagated to
\* the scheduler
RunnerSplitRaises(k, e) ==
    /\ tasks[k].pc = "L318"
    /\ tasks' = [tasks EXCEPT ![k].exc = e,
                              ![k].pc = IF Catches(e) THEN "L327" ELSE "raised"]
    /\ UNCHANGED <<JOBS, JLOCK, handler, segdirs, now, response, split>>

\* line 319: JLOCK.acquire()
RunnerAcquireDone(k) ==
    /\ tasks[k].pc = "L319"
    /\ JLOCK = Free
    /\ JLOCK' = JobThread(k)
    /\ tasks' = [tasks EXCEPT ![k].pc = "L320"]
    /\ UNCHANGED <<JOBS, handler, segdirs, now, response, split>>

\* lines 320-325: write the done record and release the lock
RunnerWriteDone(k) ==
    /\ tasks[k].pc = "L320"
    /\ JLOCK = JobThread(k)
    /\ \E t \in UtcNow :
          /\ now' = t
          /\ JOBS' = SetJob(JOBS, tasks[k].video_id,
                            DoneRecord(tasks[k].mode, tasks[k].files, t))
    /\ JLOCK' = WithExit(JLOCK)
    /\ tasks' = [tasks EXCEPT ![k] = Returned(tasks[k])]
    /\ UNCHANGED <<handler, segdirs, response, split>>

\* line 327: JLOCK.acquire()
RunnerAcquireError(k) ==
    /\ tasks[k].pc = "L327"
    /\ JLOCK = Free
    /\ JLOCK' = JobThread(k)
    /\ tasks' = [tasks EXCEPT ![k].pc = "L328"]
    /\ UNCHANGED <<JOBS, handler, segdirs, now, response, split>>

\* line 328: write the error record and release the lock
RunnerWriteError(k) ==
    /\ tasks[k].pc = "L328"
    /\ JLOCK = JobThread(k)
    /\ \E t \in UtcNow :
          /\ now' = t
          /\ JOBS' = SetJob(JOBS, tasks[k].video_id, ErrorRecord(tasks[k].exc, t))
    /\ JLOCK' = WithExit(JLOCK)
    /\ tasks' = [tasks EXCEPT ![k] = Returned(tasks[k])]
    /\ UNCHANGED <<handler, segdirs, response, split>>

----------------------------------------------------------------------------

Next ==
    \/ \E r \in Requests : SplitAsyncReject(r[1], r[2])
    \/ \E r \in Requests, p \in PartsChoices, m \in ModeChoices :
          SplitAsyncAcquire(r[1], r[2], p, m)
    \/ SplitAsyncWrite
    \/ \E r \in Requests : JobStatusReject(r[1], r[2])
    \/ \E r \in Requests : JobStatusAcquire(r[1], r[2])
    \/ JobStatusRead
    \/ \E k \in Tasks : RunnerAcquireProcessing(k)
    \/ \E k \in Tasks : RunnerWriteProcessing(k)
    \/ \E k \in Tasks : RunnerSplitReturns(k)
    \/ \E k \in Tasks, e \in Exceptions : RunnerSplitRaises(k, e)
    \/ \E k \in Tasks : RunnerAcquireDone(k)
    \/ \E k \in Tasks : RunnerWriteDone(k)
    \/ \E k \in Tasks : RunnerAcquireError(k)
    \/ \E k \in Tasks : RunnerWriteError(k)

Spec == Init /\ [][Next]_vars

----------------------------------------------------------------------------
(* split_video taken on its own: lines 115-116 for any duration and parts *)

\* probed durations in milliseconds, with the 40-second source
Durations == (0..MaxSegDuration) \cup {40000}
\* parts is any integer the query string carries
SegParts == (-1)..MaxSegParts

SplitVideoInit ==
    /\ JOBS = <<>>
    /\ JLOCK = Free
    /\ handler = Idle
    /\ tasks = <<>>
    /\ segdirs = [d \in {OutDir(v, m) : v \in Stored, m \in AnyModes} |-> 0]
    /\ now = 0
    /\ response = NoResponse
    /\ split \in {[pc |-> "L115", duration |-> d, parts |-> p, seg_time |-> 0] :
                     d \in Durations, p \in SegParts}

\* lines 115-116: duration = ffprobe_duration(in_path); seg_time = ...
SplitVideoSegTime ==
    /\ split.pc = "L115"
    /\ split' = [split EXCEPT !.pc = "L116",
                              !.seg_time = SegTime(split.duration, split.parts)]
    /\ UNCHANGED <<JOBS, JLOCK, handler, tasks, segdirs, now, response>>

SplitVideoNext == SplitVideoSegTime

SplitVideoSpec == SplitVideoInit /\ [][SplitVideoNext]_vars

----------------------------------------------------------------------------
\* the same system with requests whose mode is any string
AnyModeNext ==
    \/ \E r \in Requests : SplitAsyncReject(r[1], r[2])
    \/ \E r \in Requests, p \in PartsChoices, m \in AnyModes :
          SplitAsyncAcquire(r[1], r[2], p, m)
    \/ SplitAsyncWrite
    \/ \E r \in Requests : JobStatusReject(r[1], r[2])
    \/ \E r \in Requests : JobStatusAcquire(r[1], r[2])
    \/ JobStatusRead
    \/ \E k \in Tasks : RunnerAcquireProcessing(k)
    \/ \E k \in Tasks : RunnerWriteProcessing(k)
    \/ \E k \in Tasks : RunnerSplitReturns(k)
    \/ \E k \in Tasks, e \in Exceptions : RunnerSplitRaises(k, e)
    \/ \E k \in Tasks : RunnerAcquireDone(k)
    \/ \E k \in Tasks : RunnerWriteDone(k)
    \/ \E k \in Tasks : RunnerAcquireError(k)
    \/ \E k \in Tasks : RunnerWriteError(k)

AnyModeSpec == Init /\ [][AnyModeNext]_vars

\* the same system with a request for a video whose source file is gone
AnyRequestNext ==
    \/ \E r \in AnyRequests : SplitAsyncReject(r[1], r[2])
    \/ \E r \in AnyRequests, p \in PartsChoices, m \in ModeChoices :
          SplitAsyncAcquire(r[1], r[2], p, m)
    \/ SplitAsyncWrite
    \/ \E r \in AnyRequests : JobStatusReject(r[1], r[2])
    \/ \E r \in AnyRequests : JobStatusAcquire(r[1], r[2])
    \/ JobStatusRead
    \/ \E k \in Tasks : RunnerAcquireProcessing(k)
    \/ \E k \in Tasks : RunnerWriteProcessing(k)
    \/ \E k \in Tasks : RunnerSplitReturns(k)
    \/ \E k \in Tasks, e \in Exceptions : RunnerSplitRaises(k, e)
    \/ \E k \in Tasks : RunnerAcquireDone(k)
    \/ \E k \in Tasks : RunnerWriteDone(k)
    \/ \E k \in Tasks : RunnerAcquireError(k)
    \/ \E k \in Tasks : RunnerWriteError(k)

AnyRequestSpec == Init /\ [][AnyRequestNext]_vars

\* the steps of the background task k that need no lock
RunnerStep(k) ==
    /\ k \in Tasks
    /\ \/ RunnerWriteProcessing(k)
       \/ RunnerSplitReturns(k)
       \/ \E e \in Exceptions : RunnerSplitRaises(k, e)
       \/ RunnerWriteDone(k)
       \/ RunnerWriteError(k)

\* the steps of the background task k that take the lock
RunnerAcquire(k) ==
    /\ k \in Tasks
    /\ \/ RunnerAcquireProcessing(k)
       \/ RunnerAcquireDone(k)
       \/ RunnerAcquireError(k)

\* Scheduling: every thread that can run does run, the transcoder call
\* returns or raises, and a thread waiting for JLOCK gets it (each holder
\* releases it after one dictionary operation, and handlers may come
\* forever, so the waiting task needs strong fairness).
LiveSpec ==
    /\ Spec
    /\ WF_vars(SplitAsyncWrite)
    /\ WF_vars(JobStatusRead)
    /\ \A k \in 1..MaxSubmit : WF_vars(RunnerStep(k)) /\ SF_vars(RunnerAcquire(k))

----------------------------------------------------------------------------
(* Vocabulary of the properties *)

\* the entry of the registry for a video, UnknownResult when there is none
Entry(jobs, video_id) == IF video_id \in DOMAIN jobs THEN jobs[video_id] ELSE UnknownResult

StatusOf(jobs, video_id) == Entry(jobs, video_id).status

Rank(status) ==
    CASE status = "queued" -> 1
      [] status = "processing" -> 2
      [] status \in {"done", "error"} -> 3
      [] OTHER -> 0

\* the status stays, or moves forward along queued -> processing -> {done, error}
Forward(old, new) == old = new \/ Rank(old) < Rank(new)

\* no transcoder call of a task for the video has failed
NoFailure(video_id) == \A k \in Tasks : tasks[k].video_id = video_id => tasks[k].exc = NoExc

\* the identifiers a split_async of Requests is accepted for
Submittable == {r[1] : r \in {q \in Requests : SplitAsyncCode(q[1], q[2]) = 200}}

\* this step is the read of a job_status request
PollStep == handler.op = "job_status" /\ handler' = Idle

\* the response sent last was a job_status record of the video now polled
PolledBefore ==
    /\ response.op = "job_status"
    /\ response.code = 200
    /\ response.video_id = handler.video_id

\* task k is between its processing write and its terminal write
Executing(k) == tasks[k].pc \in {"L318", "L319", "L320", "L327", "L328"}

----------------------------------------------------------------------------
(* Properties *)

\* C1 as stated: for every identifier, under every sequence of submissions,
\* the stored status never moves back and never changes once it is done or
\* error.
C1_StatusNeverMovesBack ==
    [][\A v \in Stored : Forward(StatusOf(JOBS, v), StatusOf(JOBS', v))]_vars

\* C1 amended: for an identifier with at most one accepted submission the
\* stored status only moves forward along queued -> processing -> {done,
\* error} and never changes once it is done or error.
C1_SingleSubmissionMovesForward ==
    [][\A v \in Stored :
          Accepted(v)' <= 1 => Forward(StatusOf(JOBS, v), StatusOf(JOBS', v))]_vars

C1_Witness ==
    \E v \in Stored : Accepted(v) = 1 /\ StatusOf(JOBS, v) \in {"done", "error"}

\* C2: under fair scheduling, with a transcoder call that returns or raises,
\* every identifier whose record is queued or processing eventually has a
\* record whose status is done or error: a record, once stored, is never
\* removed, and again and again the status of the identifier is neither
\* queued nor processing.
C2_EventuallyTerminal ==
    /\ [][DOMAIN JOBS \subseteq DOMAIN JOBS']_vars
    /\ \A v \in Submittable : []<>(StatusOf(JOBS, v) \notin {"queued", "processing"})

C2_Witness ==
    /\ Len(tasks) = MaxSubmit
    /\ \A k \in Tasks :
          /\ tasks[k].pc = "finished"
          /\ IsTerminal(Entry(JOBS, tasks[k].video_id))

\* C3 as stated: for every identifier no async split was ever submitted for,
\* job_status answers {status: unknown} and never raises.
C3_NeverSubmittedIsUnknown ==
    (response.op = "job_status" /\ Accepted(response.video_id) = 0)
        => (response.code = 200 /\ response.body = UnknownResult)

\* C3 amended: for every identifier no async split was ever submitted for,
\* job_status answers {status: unknown} to a caller who passes the checks
\* (valid credential, existing video, owner or admin); the missing job
\* record raises no error.
C3_AuthorizedNeverSubmittedIsUnknown ==
    (/\ response.op = "job_status"
     /\ Accepted(response.video_id) = 0
     /\ AuthCode(response.video_id, response.caller) = 200)
        => (response.code = 200 /\ response.body = UnknownResult)

C3_Witness ==
    /\ response.op = "job_status"
    /\ Accepted(response.video_id) = 0
    /\ response.body = UnknownResult
    /\ \E v \in Stored : Accepted(v) > 0

\* C4 as stated: while no split of the identifier has failed, the statuses
\* job_status returns for it are among unknown (before the submission),
\* queued, processing, done, and each is no earlier in that order than the
\* one returned before.
C4_PolledStatusesInOrder ==
    [][(PollStep /\ NoFailure(handler.video_id)) =>
          /\ response'.code = 200
          /\ response'.body.status \in {"unknown", "queued", "processing", "done"}
          /\ Accepted(handler.video_id) > 0 => response'.body.status # "unknown"
          /\ PolledBefore => Forward(response.body.status, response'.body.status)]_vars

\* C4 amended: the same, for an identifier with at most one accepted
\* submission.
C4_SingleSubmissionPolledInOrder ==
    [][(PollStep /\ NoFailure(handler.video_id) /\ Accepted(handler.video_id) <= 1) =>
          /\ response'.code = 200
          /\ response'.body.status \in {"unknown", "queued", "processing", "done"}
          /\ Accepted(handler.video_id) > 0 => response'.body.status # "unknown"
          /\ PolledBefore => Forward(response.body.status, response'.body.status)]_vars

C4_Witness ==
    /\ response.op = "job_status"
    /\ response.code = 200
    /\ response.body.status = "done"
    /\ Accepted(response.video_id) = 1

\* C5: a transcoder failure never leaves the runner: the exception is caught,
\* no task ends by raising, and the record a failed task writes last is an
\* error record with a non-empty message.
C5_FailuresCapturedAndRecorded ==
    [][\A k \in Tasks :
          /\ tasks'[k].pc # "raised"
          /\ (tasks[k].pc = "L318" /\ tasks'[k].exc # NoExc) => tasks'[k].pc = "L327"
          /\ (tasks[k].exc # NoExc /\ tasks[k].pc # "finished" /\ tasks'[k].pc = "finished") =>
                /\ StatusOf(JOBS', tasks[k].video_id) = "error"
                /\ JOBS'[tasks[k].video_id].error # ""]_vars

C5_Witness ==
    \E k \in Tasks :
        /\ tasks[k].pc = "finished"
        /\ tasks[k].exc # NoExc
        /\ StatusOf(JOBS, tasks[k].video_id) = "error"
        /\ JOBS[tasks[k].video_id].error # ""

\* C6 as stated: every stored error record holds started_at and finished_at,
\* with finished_at >= started_at.
C6_ErrorRecordHasBothTimestamps ==
    \A v \in DOMAIN JOBS :
        JOBS[v].status = "error" =>
            /\ {"started_at", "finished_at"} \subseteq DOMAIN JOBS[v]
            /\ JOBS[v].finished_at >= JOBS[v].started_at

\* C7 as stated: once job_status has returned a done or error record for an
\* identifier, the next job_status for it returns the identical record,
\* unless a split_async was accepted in between (its response would be the
\* one sent last).
C7_TerminalRequeryIdentical ==
    [][(PollStep /\ PolledBefore /\ IsTerminal(response.body)) =>
          (response'.code = 200 /\ response'.body = response.body)]_vars

\* C8 as stated: between a task's processing write and its terminal write
\* nothing but that task replaces the registry entry of its identifier.
C8_RunnerSoleWriter ==
    [][\A k \in Tasks :
          (Executing(k) /\ Entry(JOBS', tasks[k].video_id) # Entry(JOBS, tasks[k].video_id))
              => tasks'[k] # tasks[k]]_vars

\* C9: a step of a task for one identifier leaves the registry entry of
\* every other identifier as it was (absent entries stay absent), and the
\* terminal record the task writes is done exactly when its own transcoder
\* call returned and error exactly when it raised.
C9_JobsIndependent ==
    [][\A k \in Tasks :
          tasks'[k] # tasks[k] =>
              /\ \A v \in VideoIds \ {tasks[k].video_id} :
                    /\ (v \in DOMAIN JOBS') = (v \in DOMAIN JOBS)
                    /\ Entry(JOBS', v) = Entry(JOBS, v)
              /\ tasks'[k].pc = "finished" =>
                    StatusOf(JOBS', tasks[k].video_id) =
                        IF tasks[k].exc = NoExc THEN "done" ELSE "error"]_vars

C9_Witness ==
    \E v, w \in Stored :
        /\ StatusOf(JOBS, v) = "error"
        /\ StatusOf(JOBS, w) = "done"

\* C10: the lock is never held by a task that is inside the transcoder call
\* or waiting, whoever holds it is at a single read or replacement of a
\* record and its next step releases it; so with any number of jobs in
\* processing a query gets the lock.
C10_LockOnlyAroundRecordAccess ==
    /\ \A k \in Tasks :
          (JLOCK = JobThread(k)) = (tasks[k].pc \in {"L317", "L320", "L328"})
    /\ (JLOCK = HandlerThread) = (handler # Idle)
    /\ JLOCK # Free => ENABLED (Next /\ JLOCK' = Free)

C10_Witness ==
    /\ \A k \in 1..MaxSubmit : k \in Tasks /\ tasks[k].pc = "L318"
    /\ JLOCK = HandlerThread
    /\ handler.op = "job_status"

\* the threads that are inside a "with JLOCK" block
InLock ==
    {JobThread(k) : k \in {j \in Tasks : tasks[j].pc \in {"L317", "L320", "L328"}}}
        \cup (IF handler # Idle THEN {HandlerThread} ELSE {})

\* every record one write can store
WrittenRecords ==
    LET Times == 0..MaxClock
        Counts == {Produced(META[v].duration, p) : v \in Stored, p \in PartsChoices}
    IN {QueuedRecord(m, t) : m \in ModeChoices, t \in Times}
         \cup {ProcessingRecord(m, t) : m \in ModeChoices, t \in Times}
         \cup {DoneRecord(m, n, t) : m \in ModeChoices, n \in Counts, t \in Times}
         \cup {ErrorRecord(e, t) : e \in Exceptions, t \in Times}

\* C11: at most one thread is inside a "with JLOCK" block and it is the
\* holder of the lock; the registry changes only in a step of the holder,
\* one entry at a time and to a whole written record; a query reads under
\* the lock and returns the stored record as it is (or unknown).
C11_RegistryAccessUnderLock ==
    [][/\ Cardinality(InLock) <= 1
       /\ InLock = (IF JLOCK = Free THEN {} ELSE {JLOCK})
       /\ JOBS' # JOBS =>
             /\ JLOCK # Free
             /\ JLOCK' = Free
             /\ \E v \in DOMAIN JOBS' :
                   /\ JOBS'[v] \in WrittenRecords
                   /\ \A w \in VideoIds \ {v} :
                         /\ (w \in DOMAIN JOBS') = (w \in DOMAIN JOBS)
                         /\ Entry(JOBS', w) = Entry(JOBS, w)
       /\ PollStep =>
             /\ JLOCK = HandlerThread
             /\ response'.body = Entry(JOBS, handler.video_id)
             /\ response'.body \in WrittenRecords \cup {UnknownResult}]_vars

C11_Witness ==
    /\ response.op = "job_status"
    /\ response.code = 200
    /\ response.body.status = "processing"
    /\ \E k \in Tasks : JLOCK = JobThread(k) /\ tasks[k].video_id = response.video_id

\* every task submitted for the video has returned
AllFinished(video_id) ==
    \A k \in Tasks : tasks[k].video_id = video_id => tasks[k].pc = "finished"

\* this step is the queued write of an accepted split_async
AcceptStep == handler.op = "split_async" /\ handler' = Idle

\* C12: a split_async that passes its checks is accepted whatever the record
\* of the identifier is and its write leaves a queued record there; the
\* registry holds one record per identifier; and once every runner of an
\* identifier has finished the record is terminal, written by the runner
\* that finished last, and only a newly accepted split_async replaces it.
C12_LastWriteWins ==
    [][/\ (JLOCK = Free /\ Len(tasks) < MaxSubmit) =>
             \A v \in Submittable :
                 ENABLED (\E r \in Requests, p \in PartsChoices, m \in ModeChoices :
                             r[1] = v /\ SplitAsyncAcquire(r[1], r[2], p, m))
       /\ AcceptStep =>
             /\ JOBS'[handler.video_id] \in {QueuedRecord(handler.mode, t) : t \in 0..MaxClock}
             /\ DOMAIN JOBS' = DOMAIN JOBS \cup {handler.video_id}
       /\ DOMAIN JOBS' \subseteq VideoIds
       /\ \A k \in Tasks :
             (tasks[k].pc # "finished" /\ tasks'[k].pc = "finished"
                  /\ AllFinished(tasks[k].video_id)') =>
                 /\ IsTerminal(JOBS'[tasks[k].video_id])
                 /\ JOBS'[tasks[k].video_id].status =
                        IF tasks[k].exc = NoExc THEN "done" ELSE "error"
       /\ \A v \in DOMAIN JOBS :
             (AllFinished(v) /\ JOBS'[v] # JOBS[v]) =>
                 (AcceptStep /\ handler.video_id = v)]_vars

C12_Witness ==
    \E j, k \in Tasks :
        /\ j < k
        /\ tasks[j].video_id = tasks[k].video_id
        /\ tasks[j].pc = "finished" /\ tasks[k].pc = "finished"
        /\ tasks[j].exc = NoExc /\ tasks[k].exc # NoExc
        /\ StatusOf(JOBS, tasks[j].video_id) = "done"

\* C13 as stated: the parts of the done record a task writes is the number
\* of segment files its own transcoder run produced, whatever the output
\* directory held before.
C13_DonePartsIsProducedCount ==
    [][\A k \in Tasks :
          (tasks[k].pc = "L320" /\ tasks'[k].pc = "finished") =>
              JOBS'[tasks[k].video_id].parts =
                  Produced(META[tasks[k].video_id].duration, tasks[k].parts)]_vars

\* this step answers a job_status request, with a record or with an error
QueryAnswered == PollStep \/ (response' # response /\ response'.op = "job_status")

\* C14 as stated: once a split_async has been accepted for an identifier,
\* every later job_status for it returns the stored record, never unknown.
C14_AcceptedAlwaysReturnsRecord ==
    [][(QueryAnswered /\ Accepted(response'.video_id) > 0) =>
          /\ response'.code = 200
          /\ response'.video_id \in DOMAIN JOBS
          /\ response'.body = JOBS[response'.video_id]]_vars

\* C14 amended: no entry ever leaves the registry, every identifier with an
\* accepted split_async has an entry, and every later job_status for it by
\* a caller who passes the checks returns the stored record; no job_status
\* for it returns unknown.
C14_AcceptedNeverUnknown ==
    [][/\ DOMAIN JOBS \subseteq DOMAIN JOBS'
       /\ \A v \in VideoIds : Accepted(v) > 0 => v \in DOMAIN JOBS
       /\ (QueryAnswered /\ Accepted(response'.video_id) > 0) =>
             /\ response'.body # UnknownResult
             /\ AuthCode(response'.video_id, response'.caller) = 200 =>
                   /\ response'.code = 200
                   /\ response'.video_id \in DOMAIN JOBS
                   /\ response'.body = JOBS[response'.video_id]]_vars

C14_Witness ==
    /\ response.op = "job_status"
    /\ response.code = 200
    /\ response.body.status = "error"
    /\ AllFinished(response.video_id)
    /\ response.body = Entry(JOBS, response.video_id)

\* the caller presents a valid credential and is the owner of the stored
\* video or an admin
OwnerOrAdmin(video_id, caller) ==
    /\ caller \in DOMAIN USERS
    /\ video_id \in DOMAIN META
    /\ (USERS[caller] = "admin" \/ META[video_id].owner = caller)

\* C15: whatever the registry holds, job_status answers a caller who is
\* neither the owner of the video nor an admin with 403 Forbidden, and a
\* response that carries a job record goes to an owner or admin only.
C15_RecordOnlyToOwnerOrAdmin ==
    [][QueryAnswered =>
          LET v == response'.video_id
              c == response'.caller
          IN /\ (c \in DOMAIN USERS /\ v \in DOMAIN META /\ ~OwnerOrAdmin(v, c)) =>
                    /\ response'.code = 403
                    /\ response'.body = [detail |-> "Forbidden"]
             /\ ~OwnerOrAdmin(v, c) =>
                    /\ response'.code \in {401, 403, 404}
                    /\ response'.body \notin WrittenRecords \cup {UnknownResult}
             /\ response'.code = 200 => OwnerOrAdmin(v, c)]_vars

C15_Witness ==
    /\ response.op = "job_status"
    /\ response.code = 403
    /\ response.video_id \in DOMAIN JOBS
    /\ ~OwnerOrAdmin(response.video_id, response.caller)

\* C16: every stored record has a status among queued, processing, done,
\* error, a parts field exactly when it is done and an error field exactly
\* when it is error.
C16_RecordsWellFormed ==
    \A v \in DOMAIN JOBS :
        /\ JOBS[v].status \in {"queued", "processing", "done", "error"}
        /\ ("parts" \in DOMAIN JOBS[v]) = (JOBS[v].status = "done")
        /\ ("error" \in DOMAIN JOBS[v]) = (JOBS[v].status = "error")

C16_Witness ==
    \E v, w \in DOMAIN JOBS :
        /\ JOBS[v].status = "error" /\ "error" \in DOMAIN JOBS[v]
        /\ JOBS[w].status = "done" /\ "parts" \in DOMAIN JOBS[w]
        /\ AllFinished(v) /\ AllFinished(w)

\* C17 as stated: two tasks that are inside the transcoder call at the same
\* time have the same output directory only if they were submitted for the
\* same identifier.
C17_SharedOutDirOnlySameId ==
    \A j, k \in Tasks :
        (/\ tasks[j].pc = "L318" /\ tasks[k].pc = "L318"
         /\ OutDir(tasks[j].video_id, tasks[j].mode) = OutDir(tasks[k].video_id, tasks[k].mode))
            => tasks[j].video_id = tasks[k].video_id

\* C18: seg_time is duration / max(parts, 1) (to the millisecond), and the
\* floor of 0.1 s when that is smaller; parts <= 0 counts as 1; a 40-second
\* source with parts = 4 gives 10 seconds.
C18_SegTimeIsClampedQuotient ==
    split.pc = "L116" =>
        LET d == split.duration
            n == IF split.parts <= 0 THEN 1 ELSE split.parts
            q == split.seg_time
        IN /\ q >= MinSegTime
           /\ d < MinSegTime * n => q = MinSegTime
           /\ d >= MinSegTime * n => (q * n <= d /\ d < (q + 1) * n)
           /\ (d = 40000 /\ split.parts = 4) => q = 10000

C18_Witness ==
    /\ split.pc = "L116"
    /\ split.parts <= 0
    /\ split.duration > MinSegTime
    /\ split.seg_time = split.duration

\* the order of the places of _run_split_job: a task moves from one to the
\* next, through the done branch or through the error branch
RunnerOrder ==
    {<<"L316", "L317">>, <<"L317", "L318">>,
     <<"L318", "L319">>, <<"L319", "L320">>, <<"L320", "finished">>,
     <<"L318", "L327">>, <<"L327", "L328">>, <<"L328", "finished">>}

\* C19: the queued write is made by split_async in the step that schedules
\* the runner and answers queued, before the runner has taken a step; the
\* runner then makes one processing write and one terminal write, done or
\* error, in that order, and nothing else writes the registry.
C19_ThreeWritesPerSubmission ==
    [][/\ AcceptStep =>
             /\ JOBS'[handler.video_id].status = "queued"
             /\ Len(tasks') = Len(tasks) + 1
             /\ tasks'[Len(tasks')].video_id = handler.video_id
             /\ tasks'[Len(tasks')].pc = "L316"
             /\ response' = [op |-> "split_async", video_id |-> handler.video_id,
                             caller |-> handler.caller, code |-> 200,
                             body |-> [job |-> handler.video_id, status |-> "queued"]]
       /\ \A k \in Tasks :
             tasks'[k] # tasks[k] =>
                 /\ <<tasks[k].pc, tasks'[k].pc>> \in RunnerOrder
                 /\ \A j \in Tasks \ {k} : tasks'[j] = tasks[j]
                 /\ (tasks[k].pc = "L317") =>
                        JOBS'[tasks[k].video_id] \in
                            {ProcessingRecord(tasks[k].mode, t) : t \in 0..MaxClock}
                 /\ (tasks[k].pc = "L320") => JOBS'[tasks[k].video_id].status = "done"
                 /\ (tasks[k].pc = "L328") => JOBS'[tasks[k].video_id].status = "error"
                 /\ (tasks[k].pc \notin {"L317", "L320", "L328"}) => JOBS' = JOBS
       /\ JOBS' # JOBS => (AcceptStep \/ \E k \in Tasks : tasks'[k] # tasks[k])]_vars

C19_Witness ==
    \E k \in Tasks :
        /\ tasks[k].pc = "finished"
        /\ tasks[k].exc = NoExc
        /\ Accepted(tasks[k].video_id) = 1
        /\ StatusOf(JOBS, tasks[k].video_id) = "done"
        /\ response.op = "split_async"
        /\ response.video_id = tasks[k].video_id

\* this step answers a split_async request with an error
RejectStep ==
    /\ response' # response
    /\ response'.op = "split_async"
    /\ response'.code # 200

\* C20: a split_async answered with an error changes no registry entry and
\* schedules no task, and a split_async is accepted (its queued write made)
\* only for a caller with a valid credential who is owner or admin of a
\* stored video whose source file exists.
C20_RejectedSplitAsyncNoEffect ==
    [][/\ RejectStep =>
             /\ JOBS' = JOBS
             /\ tasks' = tasks
             /\ response'.code \in {401, 403, 404}
       /\ \A r \in AnyRequests :
             (~OwnerOrAdmin(r[1], r[2]) \/ r[1] \notin HasInput) =>
                 /\ ~(AcceptStep /\ handler.video_id = r[1] /\ handler.caller = r[2])
                 /\ ~(handler'.op = "split_async" /\ handler'.video_id = r[1]
                          /\ handler'.caller = r[2])]_vars

C20_Witness ==
    /\ response.op = "split_async"
    /\ response.video_id = "v3"
    /\ response.code = 404
    /\ HasMeta(response.video_id)
    /\ "v2" \in DOMAIN JOBS
    /\ \E k \in Tasks : tasks[k].pc = "L318"

====
